---------------------------- MODULE Spec2Model ----------------------------
(***************************************************************************)
(* A model of work_with_files.py: four sequence generators (list, tuple,   *)
(* set, dict) that persist arithmetic ranges and Fibonacci series in one   *)
(* of two files (data.xml, data.json) together with metadata, and reuse    *)
(* the stored sequence when the metadata on disk matches the request.      *)
(*                                                                         *)
(* Python values are represented as follows.                               *)
(*   - None / "no value" is the empty tuple <<>>, a present value v is     *)
(*     <<v>> (so that optional values stay comparable).                    *)
(*   - text that holds a number (XML element text, dict keys) is a tuple   *)
(*     of one-character strings, e.g. str(-12) = <<"-","1","2">>.          *)
(*   - a list or a dict is [kind, items]: items is a tuple of              *)
(*     [key, val]; a list item has key = <<>> (no key), a dict item has    *)
(*     the key's text.                                                     *)
(***************************************************************************)
EXTENDS Integers, Sequences, FiniteSets, TLC

VARIABLES xml, json, now, platform, pc, call, result, prev

vars == <<xml, json, now, platform, pc, call, result, prev>>

---------------------------------------------------------------------------
(* Bounds of the model.                                                    *)

\* Generators are constructed with max_length in MaxLength-1 .. MaxLength.
MaxLength == 3
\* Range requests use stop in 0 .. MaxStop (or no stop at all).
MaxStop == 3
\* The clock runs over the minutes 0 .. MaxTime.
MaxTime == 1

Kinds == {"list", "tuple", "set", "dict"}
Generators == [kind : Kinds, max_length : {MaxLength - 1, MaxLength}]
\* "yaml" stands for any string that is neither of the two supported tags.
Formats == {"xml", "json", "yaml"}
Starts == {0, 1}
Stops == {<<>>} \cup {<<s>> : s \in 0..MaxStop}
\* A negative step, a zero step, the default step and a larger step.
Steps == {-1, 0, 1, 2}
Seeds == {0, 1}
Lengths == 0..MaxLength
Platforms == {"posix", "windows"}
\* What a caller may pass as max_length: a Python value is [type, val].
\* val is the number of an int, 0 or 1 for False or True, and stands for
\* the value of a float (1.5), a str ('3') or None otherwise.
MaxLengthArgs ==
    [type : {"int"}, val : -1..MaxLength]
        \cup [type : {"bool"}, val : {0, 1}]
        \cup [type : {"float"}, val : {1}]
        \cup [type : {"str"}, val : {3}]
        \cup [type : {"NoneType"}, val : {0}]

---------------------------------------------------------------------------
(* Python arithmetic and text conversions.                                 *)

\* Python's a % b for b # 0: the result has the sign of the divisor.
PyMod(a, b) == IF b > 0 THEN a % b ELSE -((-a) % (-b))

\* Python's a // b for b # 0 (floor division).
PyFloorDiv(a, b) ==
    IF b > 0 THEN (a - PyMod(a, b)) \div b
    ELSE -((a - PyMod(a, b)) \div (-b))

Digits == <<"0", "1", "2", "3", "4", "5", "6", "7", "8", "9">>

RECURSIVE NatToStr(_)
NatToStr(n) ==
    IF n < 10 THEN <<Digits[n + 1]>>
    ELSE NatToStr(n \div 10) \o <<Digits[(n % 10) + 1]>>

\* str(n) and f'{n}' for an int n.
IntToStr(n) == IF n < 0 THEN <<"-">> \o NatToStr(-n) ELSE NatToStr(n)

DigitVal(c) == CHOOSE d \in 0..9 : Digits[d + 1] = c

RECURSIVE StrToNat(_)
StrToNat(s) ==
    IF Len(s) = 1 THEN DigitVal(s[1])
    ELSE 10 * StrToNat(SubSeq(s, 1, Len(s) - 1)) + DigitVal(s[Len(s)])

\* int(text) for the decimal text of an int.
StrToInt(s) == IF s[1] = "-" THEN -StrToNat(Tail(s)) ELSE StrToNat(s)

\* datetime.strftime(TIME_FORMAT): the text of a time, to the minute.
StrfTime(t) == IntToStr(t)

---------------------------------------------------------------------------
(* Python sequences: what _create_sequence and _generate_fibonacci build.   *)

\* [_ for _ in values]: a list of ints.
ListOf(vals) ==
    [kind |-> "list",
     items |-> [i \in 1..Len(vals) |-> [key |-> <<>>, val |-> vals[i]]]]

\* {f'{i}': i for i in values}: a dict from the decimal text to the int.
DictOf(vals) ==
    [kind |-> "dict",
     items |-> [i \in 1..Len(vals) |->
                   [key |-> IntToStr(vals[i]), val |-> vals[i]]]]

---------------------------------------------------------------------------
(* XMLSerializer.  An XML document is [sequence, metadata]: sequence is    *)
(* the tuple of <el> children, each [attrib, text] with attrib = <<key>>   *)
(* or <<>>; metadata gives the text of each child element.  A file that    *)
(* was not written by encode may lack a metadata element or hold it        *)
(* without a value: metadata.missing and metadata.blank name those         *)
(* elements (both are empty in what encode writes).                        *)

XmlEncode(sequence, s_type, seq_type, cr_time, author, min_el, max_el, today) ==
    [sequence |->
        [i \in 1..Len(sequence.items) |->
            IF sequence.kind = "dict"
            THEN [attrib |-> <<sequence.items[i].key>>,
                  text |-> sequence.items[i].key]
            ELSE [attrib |-> <<>>,
                  text |-> IntToStr(sequence.items[i].val)]],
     metadata |->
        [type |-> s_type,
         seq_type |-> seq_type,
         len |-> IntToStr(Len(sequence.items)),
         el_type |-> "int",
         date_created |-> cr_time,
         date_modified |-> StrfTime(today),
         author |-> author,
         min |-> IntToStr(min_el),
         max |-> IntToStr(max_el),
         missing |-> {},
         blank |-> {}]]

\* The metadata elements whose text _validate_data tests, in its order.
XmlChecked ==
    <<"type", "seq_type", "len", "el_type", "max", "date_created",
      "date_modified", "author">>

\* root.find('./metadata/<name>').text is true: a text that is not empty.
XmlTextTrue(meta, name) ==
    /\ name \notin meta.blank
    /\ CASE name = "type" -> meta.type # ""
         [] name = "seq_type" -> meta.seq_type # ""
         [] name = "len" -> meta.len # <<>>
         [] name = "el_type" -> meta.el_type # ""
         [] name = "max" -> meta.max # <<>>
         [] name = "date_created" -> meta.date_created # <<>>
         [] name = "date_modified" -> meta.date_modified # <<>>
         [] name = "author" -> meta.author # ""

\* _validate_data(data): "True", "False", or "AttributeError" when the
\* first test that does not pass is on an element that is not there
\* (find returns None, and None has no text).  An Element is true when it
\* has children, a text when it is not empty.
XmlValidateData(doc) ==
    IF doc.sequence = <<>> THEN "False"
    ELSE LET stops == {i \in 1..Len(XmlChecked) :
                          \/ XmlChecked[i] \in doc.metadata.missing
                          \/ ~XmlTextTrue(doc.metadata, XmlChecked[i])}
         IN  IF stops = {} THEN "True"
             ELSE LET i == CHOOSE k \in stops : \A j \in stops : k <= j
                  IN  IF XmlChecked[i] \in doc.metadata.missing
                      THEN "AttributeError"
                      ELSE "False"

\* How decode ends: "ok" when it returns (a record or None), or the
\* exception.  min is not validated: decode reads its text and calls int.
XmlDecodeStatus(doc) ==
    IF XmlValidateData(doc) = "AttributeError" THEN "AttributeError"
    ELSE IF XmlValidateData(doc) = "False" THEN "ok"
    ELSE IF "min" \in doc.metadata.missing THEN "AttributeError"
    ELSE IF "min" \in doc.metadata.blank \/ doc.metadata.min = <<>>
    THEN "TypeError"
    ELSE "ok"

\* The decoded record <<data>>, or <<>> for None.
XmlDecode(doc) ==
    IF XmlValidateData(doc) = "True"
    THEN LET sq_type == doc.metadata.type
             seq == IF sq_type = "dict"
                    THEN [kind |-> "dict",
                          items |-> [i \in 1..Len(doc.sequence) |->
                              [key |-> doc.sequence[i].attrib[1],
                               val |-> StrToInt(doc.sequence[i].text)]]]
                    ELSE [kind |-> "list",
                          items |-> [i \in 1..Len(doc.sequence) |->
                              [key |-> <<>>,
                               val |-> StrToInt(doc.sequence[i].text)]]]
         IN  <<[sequence |-> seq,
                metadata |->
                   [type |-> sq_type,
                    seq_type |-> doc.metadata.seq_type,
                    len |-> Len(seq.items),
                    el_type |-> "int",
                    date_created |-> doc.metadata.date_created,
                    date_modified |-> doc.metadata.date_modified,
                    author |-> doc.metadata.author,
                    min |-> StrToInt(doc.metadata.min),
                    max |-> StrToInt(doc.metadata.max),
                    missing |-> {},
                    blank |-> {}]]>>
    ELSE <<>>

---------------------------------------------------------------------------
(* JSONSerializer.  encode builds the record; json.dump writes a list as   *)
(* an array and a dict as an object, json.load reads them back.            *)

JsonEncode(sequence, s_type, seq_type, cr_time, author, min_el, max_el, today) ==
    [sequence |-> sequence,
     metadata |->
        [type |-> s_type,
         seq_type |-> seq_type,
         len |-> Len(sequence.items),
         el_type |-> "int",
         date_created |-> cr_time,
         date_modified |-> StrfTime(today),
         author |-> author,
         min |-> min_el,
         max |-> max_el,
         missing |-> {},
         blank |-> {}]]

JsonDump(data) ==
    [sequence |->
        [kind |-> IF data.sequence.kind = "dict" THEN "object" ELSE "array",
         items |-> data.sequence.items],
     metadata |-> data.metadata]

JsonLoad(doc) ==
    [sequence |->
        [kind |-> IF doc.sequence.kind = "object" THEN "dict" ELSE "list",
         items |-> doc.sequence.items],
     metadata |-> doc.metadata]

\* data.get('metadata').get(name) is there and not null.
JsonHas(meta, name) == name \notin meta.missing \cup meta.blank

\* Python truth: a list or dict is true when not empty, an int when not 0,
\* a str when not empty, None never.  'min' is only required to be a key;
\* date_created and date_modified are not looked at.
JsonValidateData(data) ==
    /\ data.sequence.items # <<>>
    /\ JsonHas(data.metadata, "type") /\ data.metadata.type # ""
    /\ JsonHas(data.metadata, "seq_type") /\ data.metadata.seq_type # ""
    /\ JsonHas(data.metadata, "len") /\ data.metadata.len # 0
    /\ JsonHas(data.metadata, "el_type") /\ data.metadata.el_type # ""
    /\ JsonHas(data.metadata, "author") /\ data.metadata.author # ""
    /\ "min" \notin data.metadata.missing
    /\ JsonHas(data.metadata, "max") /\ data.metadata.max # 0

\* The decoded record <<data>>, or <<>> for None.
JsonDecode(doc) ==
    LET json_data == JsonLoad(doc)
    IN  IF JsonValidateData(json_data) THEN <<json_data>> ELSE <<>>

---------------------------------------------------------------------------
(* The serializer chosen by __get_serializer: what it writes to the file   *)
(* and what it reads back.                                                 *)

SerializerWrite(data_format, sequence, s_type, seq_type, cr_time, author, min_el, max_el, today) ==
    IF data_format = "xml"
    THEN XmlEncode(sequence, s_type, seq_type, cr_time, author, min_el,
                   max_el, today)
    ELSE JsonDump(JsonEncode(sequence, s_type, seq_type, cr_time, author,
                             min_el, max_el, today))

SerializerDecode(data_format, doc) ==
    IF data_format = "xml" THEN XmlDecode(doc) ELSE JsonDecode(doc)

\* How serializer.decode ends: "ok" or the exception.  JSONSerializer only
\* uses get and in, which do not raise.
SerializerDecodeStatus(data_format, doc) ==
    IF data_format = "xml" THEN XmlDecodeStatus(doc) ELSE "ok"

---------------------------------------------------------------------------
(* BaseGenerator and its four subclasses.  A generator is                  *)
(* [kind, max_length]; an operation that may raise returns a record with   *)
(* a status field: "ok" or the name of the exception.                      *)

\* isinstance(v, int): bool is a subclass of int.
IsInstanceInt(v) == v.type \in {"int", "bool"}

\* __init__(max_length) of a class: the generator <<g>>, or the exception.
\* True > 0 holds, and a max_length of True then compares as 1.
NewGenerator(kind, v) ==
    IF IsInstanceInt(v) /\ v.val > 0
    THEN [status |-> "ok", gen |-> <<[kind |-> kind, max_length |-> v.val]>>]
    ELSE [status |-> "InvalidTypeError", gen |-> <<>>]

\* repr(self): the class name.
ClassName(g) ==
    CASE g.kind = "list" -> "ListGenerator"
      [] g.kind = "tuple" -> "TupleGenerator"
      [] g.kind = "set" -> "SetGenerator"
      [] g.kind = "dict" -> "DictGenerator"

\* _sequence_type(): type([]).__name__ and so on.
SequenceType(g) == g.kind

\* Mutant: SetGenerator and DictGenerator inherit the list check.
SequenceTypeCheckInherited(g, type_str) ==
    type_str \in {"list", "tuple", "set"}

\* _sequence_type_check(type_str).
SequenceTypeCheck(g, type_str) ==
    IF g.kind \in {"list", "tuple"}
    THEN type_str \in {"list", "tuple", "set"}
    ELSE type_str = SequenceType(g)

\* __check_seq_length(length): TRUE, or InvalidSequenceLength is raised.
CheckSeqLength(g, length) == length < g.max_length

\* Mutant: a negative step is not rejected.
RangeArgsStatusAnyStep(start, stop, step) ==
    IF stop = <<>> THEN "ok"
    ELSE IF ~(start \in Int /\ stop[1] \in Int /\ step \in Int)
         THEN "InvalidTypeError"
    ELSE IF start > stop[1] THEN "InvalidValueError"
    ELSE "ok"

\* The argument checks shared by _custom_range and __max_in_range: none
\* is made when stop is None.
RangeArgsStatus(start, stop, step) ==
    IF stop = <<>> THEN "ok"
    ELSE IF ~(start \in Int /\ stop[1] \in Int /\ step \in Int)
         THEN "InvalidTypeError"
    ELSE IF step < 0 THEN "InvalidValueError"
    ELSE IF start > stop[1] THEN "InvalidValueError"
    ELSE "ok"

\* if stop is None: stop = start; start = 0
DefaultStart(start, stop) == IF stop = <<>> THEN 0 ELSE start
DefaultStop(start, stop) == IF stop = <<>> THEN start ELSE stop[1]

\* Mutant: the max of a range is taken to be stop - 1.
MaxInRangeStop(start, stop, step) ==
    LET b == DefaultStop(start, stop)
    IN  IF RangeArgsStatus(start, stop, step) # "ok"
        THEN [status |-> RangeArgsStatus(start, stop, step), value |-> 0]
        ELSE IF step = 0
        THEN [status |-> "ZeroDivisionError", value |-> 0]
        ELSE [status |-> "ok", value |-> b - 1]

\* __max_in_range(start, stop, step).
MaxInRange(start, stop, step) ==
    LET a == DefaultStart(start, stop)
        b == DefaultStop(start, stop)
    IN  IF RangeArgsStatus(start, stop, step) # "ok"
        THEN [status |-> RangeArgsStatus(start, stop, step), value |-> 0]
        ELSE IF step = 0
        THEN [status |-> "ZeroDivisionError", value |-> 0]
        ELSE [status |-> "ok",
              value |-> (b - 1) - PyMod((b - 1) - a, step)]

\* while n < stop: yield n; n += step     (for step > 0)
RECURSIVE RangeLoop(_, _, _)
RangeLoop(n, stop, step) ==
    IF n < stop THEN <<n>> \o RangeLoop(n + step, stop, step) ELSE <<>>

\* _custom_range(start, stop, step), consumed to its end.
CustomRange(g, start, stop, step) ==
    LET a == DefaultStart(start, stop)
        b == DefaultStop(start, stop)
    IN  IF RangeArgsStatus(start, stop, step) # "ok"
        THEN [status |-> RangeArgsStatus(start, stop, step), values |-> <<>>]
        ELSE IF step = 0
        THEN [status |-> "ZeroDivisionError", values |-> <<>>]
        ELSE LET remainder == PyMod(b - a, step)
                 seq_length == PyFloorDiv(b - a, step)
                 length == IF remainder = 0 THEN seq_length
                           ELSE seq_length + 1
             IN  IF ~CheckSeqLength(g, length)
                 THEN [status |-> "InvalidSequenceLength", values |-> <<>>]
                 ELSE IF step < 0 /\ a < b
                 THEN [status |-> "NoTermination", values |-> <<>>]
                 ELSE [status |-> "ok", values |-> RangeLoop(a, b, step)]

\* _create_sequence(start, stop, step) of the generator's class.
CreateSequence(g, start, stop, step) ==
    LET r == CustomRange(g, start, stop, step)
    IN  [status |-> r.status,
         sequence |-> IF g.kind = "dict" THEN DictOf(r.values)
                      ELSE ListOf(r.values)]

\* for i in range(k): first, second = second, first + second; return first
RECURSIVE FibLoop(_, _, _)
FibLoop(first, second, k) ==
    IF k <= 0 THEN first ELSE FibLoop(second, first + second, k - 1)

\* __fibonacci(first, second, n): the loop runs n - 1 times.
Fibonacci(first, second, n) == FibLoop(first, second, n - 1)

\* fib_sequence = [first, second]; for i in range(3, length + 1): append
FibSequence(first, second, length) ==
    <<first, second>> \o
    [j \in 1..(IF length >= 3 THEN length - 2 ELSE 0) |->
        Fibonacci(first, second, j + 2)]

\* _generate_fibonacci(sequence) of the generator's class.
GenerateFibonacciSeq(g, fib_sequence) ==
    IF g.kind \in {"set", "dict"}
    THEN [status |-> "FibonacciError", sequence |-> ListOf(<<>>)]
    ELSE [status |-> "ok", sequence |-> ListOf(fib_sequence)]

\* max(sequence) of a non-empty list.
MaxOf(seq) ==
    CHOOSE m \in {seq.items[i].val : i \in 1..Len(seq.items)} :
        \A i \in 1..Len(seq.items) : seq.items[i].val <= m

\* The step a stored record implies: (max - min) // (len - 1) when the
\* request is a range, 0 otherwise.  A min of None cannot be subtracted.
JsonStep(data_type, meta) ==
    IF data_type # "range" THEN [status |-> "ok", value |-> 0]
    ELSE IF "min" \in meta.blank
    THEN [status |-> "TypeError", value |-> 0]
    ELSE IF meta.len - 1 = 0
    THEN [status |-> "ZeroDivisionError", value |-> 0]
    ELSE [status |-> "ok",
          value |-> PyFloorDiv(meta.max - meta.min, meta.len - 1)]

\* Mutant: the step of the request is not compared.
CheckEqualSequencesNoStep(g, data_type, data, min_el, max_el, step) ==
    IF data = <<>> THEN [status |-> "ok", equal |-> FALSE]
    ELSE LET meta == data[1].metadata
             json_step == JsonStep(data_type, meta)
         IN  IF json_step.status # "ok"
             THEN [status |-> json_step.status, equal |-> FALSE]
             ELSE [status |-> "ok",
                   equal |-> /\ SequenceTypeCheck(g, meta.type)
                             /\ meta.seq_type = data_type
                             /\ meta.max = max_el
                             /\ "min" \notin meta.blank
                             /\ meta.min = min_el]

\* __check_equal_sequences(data_type, data, min_el, max_el, step);
\* data is <<>> (None) or <<record>>.
CheckEqualSequences(g, data_type, data, min_el, max_el, step) ==
    IF data = <<>> THEN [status |-> "ok", equal |-> FALSE]
    ELSE LET meta == data[1].metadata
             json_step == JsonStep(data_type, meta)
         IN  IF json_step.status # "ok"
             THEN [status |-> json_step.status, equal |-> FALSE]
             ELSE [status |-> "ok",
                   equal |-> /\ SequenceTypeCheck(g, meta.type)
                             /\ meta.seq_type = data_type
                             /\ meta.max = max_el
                             /\ "min" \notin meta.blank
                             /\ meta.min = min_el
                             /\ step = json_step.value]

---------------------------------------------------------------------------
(* The two files.  A file is [exists, ctime, content]: content is <<>>     *)
(* for a file of size 0 and <<doc>> for a written document; ctime is what  *)
(* os.path.getctime returns.                                               *)

Absent == [exists |-> FALSE, ctime |-> 0, content |-> <<>>]

NewFile(t) == [exists |-> TRUE, ctime |-> t, content |-> <<>>]

\* os.path.getsize(path) != 0
NotEmpty(f) == f.exists /\ f.content # <<>>

\* open(file_path, 'a+'): creates the file when it does not exist.
OpenAppend(f, t) == IF f.exists THEN f ELSE NewFile(t)

\* file.truncate(0) and the write that follows.  getctime is the time of
\* the last change of the file on POSIX and its creation time on Windows.
WriteFile(f, doc, t, plat) ==
    [exists |-> TRUE,
     ctime |-> IF plat = "posix" THEN t ELSE f.ctime,
     content |-> <<doc>>]

\* The file at __get_path(data_format), of the pair fs = [xml, json].
FileOf(data_format, fs) == IF data_format = "xml" THEN fs.xml ELSE fs.json

SetFile(data_format, fs, f) ==
    IF data_format = "xml" THEN [fs EXCEPT !.xml = f]
    ELSE [fs EXCEPT !.json = f]

\* __get_serializer(data_format) and __get_path(data_format).
SerializerStatus(data_format) ==
    IF data_format \in {"xml", "json"} THEN "ok" ELSE "InvalidValueError"

\* Mutant: the file of the other format is left in place.
RemoveUnsupportedFileKeeps(data_format, fs) ==
    IF data_format \notin STRING
    THEN [status |-> "InvalidValueError", fs |-> fs]
    ELSE [status |-> "ok", fs |-> fs]

\* __remove_unsupported_file(data_format).
RemoveUnsupportedFile(data_format, fs) ==
    IF data_format \notin STRING
    THEN [status |-> "InvalidValueError", fs |-> fs]
    ELSE IF fs.json.exists /\ data_format = "xml"
    THEN [status |-> "ok", fs |-> [fs EXCEPT !.json = Absent]]
    ELSE IF fs.xml.exists /\ data_format = "json"
    THEN [status |-> "ok", fs |-> [fs EXCEPT !.xml = Absent]]
    ELSE [status |-> "ok", fs |-> fs]

---------------------------------------------------------------------------
(* The three entry points, each as a function of the files before the     *)
(* call, the time t of the call and the platform: [fs, result], the files  *)
(* after the call and [status, hit, value].  hit tells that the stored     *)
(* sequence was reused; value is <<>> for None.                            *)

Raised(status, fs) ==
    [fs |-> fs, result |-> [status |-> status, hit |-> FALSE, value |-> <<>>]]

Written(data_format, fs, f, doc, hit, t, plat) ==
    [fs |-> SetFile(data_format, fs, WriteFile(f, doc, t, plat)),
     result |-> [status |-> "ok", hit |-> hit, value |-> <<>>]]

\* What the with-block of generate_sequence does, the target file f open.
SequenceBody(g, data_format, a, b, step, max_element, fs, f, t, plat) ==
    LET opened == SetFile(data_format, fs, f)
        cr_time == StrfTime(f.ctime)
        data == IF NotEmpty(f) THEN SerializerDecode(data_format, f.content[1])
                ELSE <<>>
        decoded == IF NotEmpty(f)
                   THEN SerializerDecodeStatus(data_format, f.content[1])
                   ELSE "ok"
        eq == IF NotEmpty(f)
              THEN CheckEqualSequences(g, "range", data, a, max_element, step)
              ELSE [status |-> "ok", equal |-> FALSE]
    IN  IF decoded # "ok" THEN Raised(decoded, opened)
        ELSE IF eq.status # "ok" THEN Raised(eq.status, opened)
        ELSE LET made == IF eq.equal
                         THEN [status |-> "ok", sequence |-> data[1].sequence]
                         ELSE CreateSequence(g, a, <<b>>, step)
             IN  IF made.status # "ok" THEN Raised(made.status, opened)
                 ELSE Written(data_format, fs, f,
                              SerializerWrite(data_format, made.sequence,
                                  SequenceType(g), "range", cr_time,
                                  ClassName(g), a, max_element, t),
                              eq.equal, t, plat)

\* generate_sequence(data_format, start, stop, step).
GenerateSequenceCall(g, data_format, start, stop, step, fs, t, plat) ==
    LET rm == RemoveUnsupportedFile(data_format, fs)
        mx == MaxInRange(start, stop, step)
    IN  IF rm.status # "ok" THEN Raised(rm.status, rm.fs)
        ELSE IF SerializerStatus(data_format) # "ok"
        THEN Raised(SerializerStatus(data_format), rm.fs)
        ELSE IF mx.status # "ok" THEN Raised(mx.status, rm.fs)
        ELSE SequenceBody(g, data_format, DefaultStart(start, stop),
                          DefaultStop(start, stop), step, mx.value, rm.fs,
                          OpenAppend(FileOf(data_format, rm.fs), t), t, plat)

\* What the with-block of generate_fibonacci does, the target file f open.
FibonacciBody(g, data_format, first, second, length, fs, f, t, plat) ==
    LET opened == SetFile(data_format, fs, f)
        cr_time == StrfTime(f.ctime)
        data == IF NotEmpty(f) THEN SerializerDecode(data_format, f.content[1])
                ELSE <<>>
        eq == IF NotEmpty(f)
              THEN CheckEqualSequences(g, "fibonacci", data, first,
                       Fibonacci(first, second, length - 1), 0)
              ELSE [status |-> "ok", equal |-> FALSE]
        decoded == IF NotEmpty(f)
                   THEN SerializerDecodeStatus(data_format, f.content[1])
                   ELSE "ok"
    IN  IF decoded # "ok" THEN Raised(decoded, opened)
        ELSE IF eq.status # "ok" THEN Raised(eq.status, opened)
        ELSE LET made == IF eq.equal
                         THEN [status |-> "ok", sequence |-> data[1].sequence]
                         ELSE GenerateFibonacciSeq(g,
                                  FibSequence(first, second, length))
             IN  IF made.status # "ok" THEN Raised(made.status, opened)
                 ELSE Written(data_format, fs, f,
                              SerializerWrite(data_format, made.sequence,
                                  SequenceType(g), "fibonacci", cr_time,
                                  ClassName(g), first, MaxOf(made.sequence),
                                  t),
                              eq.equal, t, plat)

\* generate_fibonacci(data_format, first, second, length).
GenerateFibonacciCall(g, data_format, first, second, length, fs, t, plat) ==
    LET rm == RemoveUnsupportedFile(data_format, fs)
    IN  IF rm.status # "ok" THEN Raised(rm.status, rm.fs)
        ELSE IF ~CheckSeqLength(g, length)
        THEN Raised("InvalidSequenceLength", rm.fs)
        ELSE IF SerializerStatus(data_format) # "ok"
        THEN Raised(SerializerStatus(data_format), rm.fs)
        ELSE FibonacciBody(g, data_format, first, second, length, rm.fs,
                           OpenAppend(FileOf(data_format, rm.fs), t), t, plat)

\* A returned Python value: [kind, items, members].  A list, tuple or dict
\* has its items in order and no members; a set has its members only.
Returned(kind, items) == [kind |-> kind, items |-> items, members |-> {}]

\* tuple(x) and set(x) of a list x, as TupleGenerator and SetGenerator
\* apply them to what BaseGenerator.get_sequence returns.
Coerce(g, v) ==
    IF g.kind = "tuple" THEN [v EXCEPT !.kind = "tuple"]
    ELSE IF g.kind = "set"
    THEN [kind |-> "set", items |-> <<>>,
          members |-> {v.items[i].val : i \in 1..Len(v.items)}]
    ELSE v

\* get_sequence().
GetSequenceCall(g, fs) ==
    LET data_format == IF NotEmpty(fs.xml) THEN "xml"
                       ELSE IF NotEmpty(fs.json) THEN "json" ELSE ""
        data == IF data_format = "" THEN <<>>
                ELSE SerializerDecode(data_format,
                                      FileOf(data_format, fs).content[1])
        decoded == IF data_format = "" THEN "ok"
                   ELSE SerializerDecodeStatus(data_format,
                            FileOf(data_format, fs).content[1])
    IN  IF data_format = ""
        THEN [fs |-> fs,
              result |-> [status |-> "ok", hit |-> FALSE,
                          value |-> <<Coerce(g, Returned("list", <<>>))>>]]
        ELSE IF decoded # "ok" THEN Raised(decoded, fs)
        ELSE IF data = <<>> THEN Raised("InvalidValueError", fs)
        ELSE IF ~SequenceTypeCheck(g, data[1].metadata.type)
        THEN Raised("InvalidTypeError", fs)
        ELSE IF data[1].metadata.len > g.max_length
        THEN Raised("InvalidSequenceLength", fs)
        ELSE [fs |-> fs,
              result |-> [status |-> "ok", hit |-> FALSE,
                          value |-> <<Coerce(g,
                              Returned(data[1].sequence.kind,
                                       data[1].sequence.items))>>]]

---------------------------------------------------------------------------
(* The state machine.  xml and json are the two files, now the clock and   *)
(* platform the operating system.  The caller is idle or holds the result  *)
(* of its last call: call is that call, result what it returned or raised, *)
(* and prev the result of the call before it when the caller has just      *)
(* issued the very same call twice in a row.                               *)

NoCall ==
    [op |-> "none", gen |-> [kind |-> "list", max_length |-> 0],
     format |-> "", start |-> 0, stop |-> <<>>, step |-> 0,
     first |-> 0, second |-> 0, length |-> 0,
     arg |-> [type |-> "NoneType", val |-> 0]]

SequenceCallOf(g, data_format, start, stop, step) ==
    [NoCall EXCEPT !.op = "generate_sequence", !.gen = g,
                   !.format = data_format, !.start = start, !.stop = stop,
                   !.step = step]

FibonacciCallOf(g, data_format, first, second, length) ==
    [NoCall EXCEPT !.op = "generate_fibonacci", !.gen = g,
                   !.format = data_format, !.first = first,
                   !.second = second, !.length = length]

GetCallOf(g) == [NoCall EXCEPT !.op = "get_sequence", !.gen = g]

ConstructCallOf(kind, v) ==
    [NoCall EXCEPT !.op = "construct", !.gen.kind = kind, !.arg = v]

NoResult == [status |-> "none", hit |-> FALSE, value |-> <<>>]

\* The tests start from files that are absent or emptied.
Init ==
    /\ xml \in {Absent, NewFile(0)}
    /\ json \in {Absent, NewFile(0)}
    /\ now = 0
    /\ platform \in Platforms
    /\ pc = "idle"
    /\ call = NoCall
    /\ result = NoResult
    /\ prev = <<>>

\* The caller issues c: any call when idle, the same call again otherwise.
CanCall(c) == pc = "idle" \/ (pc = "returned" /\ call = c)

Finish(c, r) ==
    /\ xml' = r.fs.xml
    /\ json' = r.fs.json
    /\ call' = c
    /\ result' = r.result
    /\ prev' = IF pc = "returned" THEN <<result>> ELSE <<>>
    /\ pc' = "returned"
    /\ UNCHANGED <<now, platform>>

GenerateSequence(g, data_format, start, stop, step) ==
    /\ CanCall(SequenceCallOf(g, data_format, start, stop, step))
    /\ Finish(SequenceCallOf(g, data_format, start, stop, step),
              GenerateSequenceCall(g, data_format, start, stop, step,
                  [xml |-> xml, json |-> json], now, platform))

GenerateFibonacci(g, data_format, first, second, length) ==
    /\ CanCall(FibonacciCallOf(g, data_format, first, second, length))
    /\ Finish(FibonacciCallOf(g, data_format, first, second, length),
              GenerateFibonacciCall(g, data_format, first, second, length,
                  [xml |-> xml, json |-> json], now, platform))

GetSequence(g) ==
    /\ CanCall(GetCallOf(g))
    /\ Finish(GetCallOf(g), GetSequenceCall(g, [xml |-> xml, json |-> json]))

\* A generator is constructed: the files are not touched, and the result
\* holds the new generator when there is one.
Construct(kind, v) ==
    /\ CanCall(ConstructCallOf(kind, v))
    /\ Finish(ConstructCallOf(kind, v),
              [fs |-> [xml |-> xml, json |-> json],
               result |-> [status |-> NewGenerator(kind, v).status,
                           hit |-> FALSE,
                           value |-> NewGenerator(kind, v).gen]])

\* The caller drops the result and moves on.
Return ==
    /\ pc = "returned"
    /\ pc' = "idle"
    /\ call' = NoCall
    /\ result' = NoResult
    /\ prev' = <<>>
    /\ UNCHANGED <<xml, json, now, platform>>

\* A minute passes.
Tick ==
    /\ pc = "idle"
    /\ now < MaxTime
    /\ now' = now + 1
    /\ UNCHANGED <<xml, json, platform, pc, call, result, prev>>

\* What the caller may pass: anything of S when idle, the value v of its
\* last call when it issues that call again.
Pick(S, v) == IF pc = "idle" THEN S ELSE {v}

Next ==
    \/ \E g \in Pick(Generators, call.gen), f \in Pick(Formats, call.format),
          a \in Pick(Starts, call.start), b \in Pick(Stops, call.stop),
          s \in Pick(Steps, call.step) : GenerateSequence(g, f, a, b, s)
    \/ \E g \in Pick(Generators, call.gen), f \in Pick(Formats, call.format),
          a \in Pick(Seeds, call.first), b \in Pick(Seeds, call.second),
          n \in Pick(Lengths, call.length) : GenerateFibonacci(g, f, a, b, n)
    \/ \E g \in Pick(Generators, call.gen) : GetSequence(g)
    \/ \E k \in Pick(Kinds, call.gen.kind), v \in Pick(MaxLengthArgs, call.arg) :
          Construct(k, v)
    \/ Return
    \/ Tick

Spec == Init /\ [][Next]_vars

---------------------------------------------------------------------------
(* A second start: one of the files was not written by encode.  It holds   *)
(* the record of the list 0, 1 with one metadata element taken out or left *)
(* without a value; the other file does not exist.                         *)

\* The metadata elements of a record.
FieldNames ==
    {"type", "seq_type", "len", "el_type", "date_created", "date_modified",
     "author", "min", "max"}

\* What generate_sequence(data_format, 0, 2) of a list generator writes.
BaseDoc(data_format) ==
    SerializerWrite(data_format, ListOf(<<0, 1>>), "list", "range",
                    StrfTime(0), "ListGenerator", 0, 1, 0)

\* The document without the element name, or with it left empty (null).
Damage(doc, name, how) ==
    IF how = "missing" THEN [doc EXCEPT !.metadata.missing = {name}]
    ELSE [doc EXCEPT !.metadata.blank = {name}]

InitDamaged ==
    /\ \E f \in {"xml", "json"}, name \in FieldNames,
          how \in {"missing", "blank"} :
          /\ xml = IF f = "xml"
                   THEN [exists |-> TRUE, ctime |-> 0,
                         content |-> <<Damage(BaseDoc(f), name, how)>>]
                   ELSE Absent
          /\ json = IF f = "json"
                    THEN [exists |-> TRUE, ctime |-> 0,
                          content |-> <<Damage(BaseDoc(f), name, how)>>]
                    ELSE Absent
    /\ now = 0
    /\ platform \in Platforms
    /\ pc = "idle"
    /\ call = NoCall
    /\ result = NoResult
    /\ prev = <<>>

SpecDamaged == InitDamaged /\ [][Next]_vars

---------------------------------------------------------------------------
(* What the properties below read off a state.                             *)

Generated == pc = "returned" /\ call.op \in {"generate_sequence", "generate_fibonacci"}

Succeeded == result.status = "ok"

\* The file the last call addressed, and the other one.
Target == IF call.format = "xml" THEN xml ELSE json
Other == IF call.format = "xml" THEN json ELSE xml
OtherFormat(f) == IF f = "xml" THEN "json" ELSE "xml"

\* The elements a document holds, read without any validation: the key
\* (<<>> when there is none) and the int of each.
RawItems(f, doc) ==
    IF f = "xml"
    THEN [i \in 1..Len(doc.sequence) |->
             [key |-> IF doc.sequence[i].attrib = <<>> THEN <<>>
                      ELSE doc.sequence[i].attrib[1],
              val |-> StrToInt(doc.sequence[i].text)]]
    ELSE doc.sequence.items

\* start, start+step, ... strictly below stop, for step > 0.
ExpectedRange(a, b, s) ==
    [i \in 1..Cardinality({k \in 0..(b - a) : a + k * s < b}) |->
        a + (i - 1) * s]

\* The items of a list of vals, or of the dict from each val's text to it.
ExpectedItems(kind, vals) ==
    [i \in 1..Len(vals) |->
        [key |-> IF kind = "dict" THEN IntToStr(vals[i]) ELSE <<>>,
         val |-> vals[i]]]

\* The range a generate_sequence call asks for (stop omitted: 0 .. start).
AskedRange(c) ==
    IF c.stop = <<>> THEN ExpectedRange(0, c.start, c.step)
    ELSE ExpectedRange(c.start, c.stop[1], c.step)

---------------------------------------------------------------------------
(* C1.  Whenever generate_sequence(fmt, start, stop, step) completes       *)
(* successfully, on any generator, in either format, from any state of the *)
(* files and whether or not the stored sequence was reused, the file of    *)
(* that format holds exactly start, start+step, ... below stop: in order   *)
(* and without keys for list, tuple and set, keyed by each element's       *)
(* decimal text for dict.                                                  *)
C1_RangePersisted ==
    (pc = "returned" /\ call.op = "generate_sequence" /\ Succeeded) =>
        /\ NotEmpty(Target)
        /\ RawItems(call.format, Target.content[1]) =
               ExpectedItems(call.gen.kind, AskedRange(call))

\* A dict generator was served a two-element range from a record that an
\* earlier, other call stored.
C1_Witness ==
    /\ pc = "returned" /\ call.op = "generate_sequence" /\ Succeeded
    /\ result.hit
    /\ prev = <<>>
    /\ call.gen.kind = "dict"
    /\ Len(AskedRange(call)) = 2

---------------------------------------------------------------------------
(* C2.  Whenever generate_fibonacci(fmt, first, second, length) on a list  *)
(* or tuple generator reuses the sequence stored on disk, that sequence is *)
(* what a fresh computation for (first, second, length) produces (stated   *)
(* for length >= 2, where both seeds are terms of the result).             *)
C2_FibonacciCacheSound ==
    (/\ pc = "returned" /\ call.op = "generate_fibonacci" /\ Succeeded
     /\ call.gen.kind \in {"list", "tuple"}
     /\ call.length >= 2
     /\ result.hit) =>
        RawItems(call.format, Target.content[1]) =
            ListOf(FibSequence(call.first, call.second, call.length)).items

---------------------------------------------------------------------------
(* C3.  When generate_sequence(fmt, start, stop, step) has completed       *)
(* successfully and the same call is made again at once on the same        *)
(* generator, the second call completes successfully and leaves the same   *)
(* sequence in the file.                                                   *)
C3_SecondCallIdempotent ==
    [][(/\ pc = "returned" /\ call.op = "generate_sequence" /\ Succeeded
        /\ pc' = "returned") =>
           /\ result'.status = "ok"
           /\ RawItems(call.format, Target'.content[1]) =
                  RawItems(call.format, Target.content[1])]_vars

---------------------------------------------------------------------------
(* C4.  From files without content, whatever calls are made and whether    *)
(* they succeed or fail, at most one of data.xml and data.json is          *)
(* non-empty; and after a successful generation in one format the file of  *)
(* the other format does not exist.                                        *)
C4_FormatExclusive ==
    /\ ~(NotEmpty(xml) /\ NotEmpty(json))
    /\ (Generated /\ Succeeded) => (NotEmpty(Target) /\ ~Other.exists)

\* A generation in json has succeeded on top of earlier calls: the json
\* file holds the record and no xml file is left.
C4_Witness ==
    /\ Generated /\ Succeeded
    /\ call.format = "json"
    /\ result.hit
    /\ NotEmpty(json) /\ ~xml.exists

---------------------------------------------------------------------------
(* C5.  generate_sequence on a generator whose max_length is at most the   *)
(* number of elements of the requested range never completes               *)
(* successfully, whatever the files hold.                                  *)
C5_LengthGuard ==
    (/\ pc = "returned" /\ call.op = "generate_sequence"
     /\ call.format \in {"xml", "json"}
     /\ call.step > 0
     /\ call.stop # <<>> => call.start <= call.stop[1]
     /\ call.gen.max_length <= Len(AskedRange(call))) =>
        ~Succeeded

---------------------------------------------------------------------------
(* C6.  Whenever generate_sequence or generate_fibonacci fails with a      *)
(* validation error, both files exist or not, and hold, what they did      *)
(* before the call.                                                        *)
ValidationErrors ==
    {"InvalidSequenceLength", "FibonacciError", "InvalidValueError",
     "InvalidTypeError"}

C6_FailureLeavesFiles ==
    [][(/\ pc' = "returned"
        /\ call'.op \in {"generate_sequence", "generate_fibonacci"}
        /\ result'.status \in ValidationErrors) =>
           /\ xml'.exists = xml.exists /\ xml'.content = xml.content
           /\ json'.exists = json.exists /\ json'.content = json.content]_vars

---------------------------------------------------------------------------
(* C7.  generate_fibonacci on a set or dict generator, in a supported      *)
(* format and with a length below the generator's bound, fails with        *)
(* FibonacciError and never reuses a stored record, whatever the files     *)
(* hold; and no file ever holds a record of type set or dict with          *)
(* seq_type fibonacci.                                                     *)
C7_FibonacciRejected ==
    /\ (/\ pc = "returned" /\ call.op = "generate_fibonacci"
        /\ call.gen.kind \in {"set", "dict"}
        /\ call.format \in {"xml", "json"}
        /\ call.length < call.gen.max_length) =>
           (result.status = "FibonacciError" /\ ~result.hit)
    /\ NotEmpty(xml) =>
           ~(/\ xml.content[1].metadata.type \in {"set", "dict"}
             /\ xml.content[1].metadata.seq_type = "fibonacci")
    /\ NotEmpty(json) =>
           ~(/\ json.content[1].metadata.type \in {"set", "dict"}
             /\ json.content[1].metadata.seq_type = "fibonacci")

\* A set generator was refused while the file it addressed held the
\* Fibonacci record of a list or tuple generator.
C7_Witness ==
    /\ pc = "returned" /\ call.op = "generate_fibonacci"
    /\ call.gen.kind = "set"
    /\ result.status = "FibonacciError"
    /\ NotEmpty(Target)
    /\ Target.content[1].metadata.seq_type = "fibonacci"

---------------------------------------------------------------------------
(* C8.  get_sequence on a dict generator, the file holding a record (of at *)
(* least one element) that a list generator wrote, always fails with       *)
(* InvalidTypeError.                                                       *)
Readable == IF NotEmpty(xml) THEN xml ELSE json

C8_DictReadsListRecord ==
    (/\ pc = "returned" /\ call.op = "get_sequence"
     /\ call.gen.kind = "dict"
     /\ NotEmpty(Readable)
     /\ Readable.content[1].metadata.type = "list"
     /\ RawItems(IF NotEmpty(xml) THEN "xml" ELSE "json",
                 Readable.content[1]) # <<>>) =>
        result.status = "InvalidTypeError"

---------------------------------------------------------------------------
(* C9.  After every successful generation call that wrote at least one     *)
(* element, in either format, decoding the written file yields a record,   *)
(* not None, with the sequence that the file holds.                        *)
C9_ReadAfterWrite ==
    (/\ Generated /\ Succeeded
     /\ RawItems(call.format, Target.content[1]) # <<>>) =>
        LET data == SerializerDecode(call.format, Target.content[1])
        IN  /\ data # <<>>
            /\ data[1].sequence.items =
                   RawItems(call.format, Target.content[1])

---------------------------------------------------------------------------
(* C10.  The record a successful generation call wrote decodes to the same *)
(* record in its own format and re-encoded in the other format: the two    *)
(* decoded records are equal, and one is None exactly when the other is.   *)

\* The arguments of encode, read back from a document without validation.
RawRecord(f, doc) ==
    [sequence |->
        [kind |-> IF f = "xml"
                  THEN IF doc.sequence # <<>> /\ doc.sequence[1].attrib # <<>>
                       THEN "dict" ELSE "list"
                  ELSE IF doc.sequence.kind = "object" THEN "dict"
                       ELSE "list",
         items |-> RawItems(f, doc)],
     s_type |-> doc.metadata.type,
     seq_type |-> doc.metadata.seq_type,
     cr_time |-> doc.metadata.date_created,
     author |-> doc.metadata.author,
     min_el |-> IF f = "xml" THEN StrToInt(doc.metadata.min)
                ELSE doc.metadata.min,
     max_el |-> IF f = "xml" THEN StrToInt(doc.metadata.max)
                ELSE doc.metadata.max,
     today |-> StrToInt(doc.metadata.date_modified)]

\* The document of format f written again in the other format.
Transcoded(f, doc) ==
    LET r == RawRecord(f, doc)
    IN  SerializerWrite(OtherFormat(f), r.sequence, r.s_type, r.seq_type,
                        r.cr_time, r.author, r.min_el, r.max_el, r.today)

C10_FormatSymmetry ==
    (Generated /\ Succeeded) =>
        LET own == SerializerDecode(call.format, Target.content[1])
            other == SerializerDecode(OtherFormat(call.format),
                         Transcoded(call.format, Target.content[1]))
        IN  /\ (own = <<>>) <=> (other = <<>>)
            /\ (own # <<>> /\ other # <<>>) => own = other

---------------------------------------------------------------------------
(* C11.  Whenever a generation call completes successfully on a file that  *)
(* already held a record (the file is rewritten, not recreated), the       *)
(* date_created it writes is the date_created the file held before the     *)
(* call, and the date_modified it writes is the time of the call.          *)
C11_DateCreatedCarried ==
    [][(/\ pc' = "returned"
        /\ call'.op \in {"generate_sequence", "generate_fibonacci"}
        /\ result'.status = "ok"
        /\ NotEmpty(IF call'.format = "xml" THEN xml ELSE json)) =>
           LET before == IF call'.format = "xml" THEN xml ELSE json
               after == IF call'.format = "xml" THEN xml' ELSE json'
           IN  /\ after.content[1].metadata.date_created =
                      before.content[1].metadata.date_created
               /\ after.content[1].metadata.date_modified =
                      StrfTime(now)]_vars

---------------------------------------------------------------------------
(* C12.  Whenever generate_fibonacci(fmt, first, second, length) with      *)
(* length >= 1 completes successfully on a list or tuple generator without *)
(* reusing a stored record, the file holds exactly length elements: first, *)
(* second and then each the sum of the two before it; and the metadata len *)
(* is length.                                                              *)

\* The first n terms of the recurrence seeded with first, second.
RECURSIVE FibTerms(_, _, _)
FibTerms(first, second, n) ==
    IF n <= 0 THEN <<>>
    ELSE <<first>> \o FibTerms(second, first + second, n - 1)

\* The len a document states, read without validation.
RawLen(f, doc) ==
    IF f = "xml" THEN StrToInt(doc.metadata.len) ELSE doc.metadata.len

C12_FreshFibonacci ==
    (/\ pc = "returned" /\ call.op = "generate_fibonacci" /\ Succeeded
     /\ call.gen.kind \in {"list", "tuple"}
     /\ call.length >= 1
     /\ ~result.hit) =>
        /\ RawItems(call.format, Target.content[1]) =
               ExpectedItems("list",
                   FibTerms(call.first, call.second, call.length))
        /\ RawLen(call.format, Target.content[1]) = call.length

---------------------------------------------------------------------------
(* C13.  After every successful generate_sequence(fmt, start, stop, step), *)
(* reusing a stored record or not, the metadata of the file has seq_type   *)
(* range, min = start (0 when stop is omitted), len = the number of stored *)
(* elements and max = (stop-1) - ((stop-1)-start) mod step, which is below *)
(* stop; when at least one element is stored, max is the greatest stored   *)
(* element, and for an empty range it is start - step.                     *)

\* The min and max a document states, read without validation.
RawMin(f, doc) ==
    IF f = "xml" THEN StrToInt(doc.metadata.min) ELSE doc.metadata.min
RawMax(f, doc) ==
    IF f = "xml" THEN StrToInt(doc.metadata.max) ELSE doc.metadata.max

\* The bounds a generate_sequence call asks for (stop omitted: 0 .. start).
AskedStart(c) == IF c.stop = <<>> THEN 0 ELSE c.start
AskedStop(c) == IF c.stop = <<>> THEN c.start ELSE c.stop[1]

\* The stored elements have a greatest one, and it is m.
GreatestStored(f, doc, m) ==
    /\ \E i \in 1..Len(RawItems(f, doc)) : RawItems(f, doc)[i].val = m
    /\ \A i \in 1..Len(RawItems(f, doc)) : RawItems(f, doc)[i].val <= m

C13_RangeMetadata ==
    (pc = "returned" /\ call.op = "generate_sequence" /\ Succeeded) =>
        LET doc == Target.content[1]
            a == AskedStart(call)
            b == AskedStop(call)
        IN  /\ call.step > 0
            /\ doc.metadata.seq_type = "range"
            /\ RawMin(call.format, doc) = a
            /\ RawLen(call.format, doc) = Len(RawItems(call.format, doc))
            /\ RawMax(call.format, doc) =
                   (b - 1) - (((b - 1) - a) % call.step)
            /\ RawMax(call.format, doc) < b
            /\ IF RawItems(call.format, doc) # <<>>
               THEN GreatestStored(call.format, doc,
                                   RawMax(call.format, doc))
               ELSE RawMax(call.format, doc) = a - call.step

\* A range whose greatest element is below stop - 1 was stored.
C13_Witness ==
    /\ pc = "returned" /\ call.op = "generate_sequence" /\ Succeeded
    /\ call.step = 2
    /\ RawItems(call.format, Target.content[1]) # <<>>
    /\ RawMax(call.format, Target.content[1]) < AskedStop(call) - 1

\* The statement as it was made: max is always the greatest element
\* actually stored.
C13_MaxIsStored ==
    (pc = "returned" /\ call.op = "generate_sequence" /\ Succeeded) =>
        GreatestStored(call.format, Target.content[1],
                       RawMax(call.format, Target.content[1]))

---------------------------------------------------------------------------
(* C14.  get_sequence, called while neither file has content, raises       *)
(* nothing and returns the empty sequence of the generator's own shape:    *)
(* an empty list, tuple, set or dict.                                      *)
C14_EmptyRead ==
    (/\ pc = "returned" /\ call.op = "get_sequence"
     /\ ~NotEmpty(xml) /\ ~NotEmpty(json)) =>
        /\ result.status = "ok"
        /\ result.value =
               <<[kind |-> call.gen.kind, items |-> <<>>, members |-> {}]>>

---------------------------------------------------------------------------
(* C15.  Constructing any of the four generators with a max_length that is *)
(* not a positive integer (zero, negative, or not an integer: a bool, a    *)
(* float, a str, None) fails with InvalidTypeError and yields no           *)
(* generator; a generator that is constructed has an integer max_length    *)
(* above 0.                                                                *)
C15_ConstructionGuard ==
    (pc = "returned" /\ call.op = "construct") =>
        /\ ~(call.arg.type = "int" /\ call.arg.val > 0) =>
               (result.status = "InvalidTypeError" /\ result.value = <<>>)
        /\ result.status = "ok" =>
               /\ call.arg.type = "int"
               /\ result.value[1].max_length = call.arg.val
               /\ result.value[1].max_length > 0

---------------------------------------------------------------------------
(* C16.  A generation call that reaches the equivalence decision reuses    *)
(* the stored sequence only if a record was decoded, its type is accepted  *)
(* by the generator, its seq_type is the requested one, its min and max    *)
(* are the newly computed ones and, for a range request, the step implied  *)
(* by its min, max and len (0 when len = 1) is the requested step; and     *)
(* when one of these fails, the call regenerates: it fails only with a     *)
(* validation error of the regeneration, and when it succeeds the file     *)
(* holds the fresh sequence.                                               *)

\* The call reaches the decision: the format is supported and the checks
\* made before the file is opened have passed.
ReachesDecision(c) ==
    /\ c.format \in {"xml", "json"}
    /\ \/ /\ c.op = "generate_sequence"
          /\ MaxInRange(c.start, c.stop, c.step).status = "ok"
       \/ /\ c.op = "generate_fibonacci"
          /\ CheckSeqLength(c.gen, c.length)

\* What the file f yields when decoded: <<record>>, or <<>>.
Stored(c, f) ==
    IF NotEmpty(f) THEN SerializerDecode(c.format, f.content[1]) ELSE <<>>

\* (max - min) / (len - 1) in integer division, or 0 when len = 1.
ImpliedStep(meta) ==
    IF meta.len = 1 THEN 0
    ELSE PyFloorDiv(meta.max - meta.min, meta.len - 1)

\* The five conditions, for the call c against the file f.
Equivalent(c, f) ==
    /\ Stored(c, f) # <<>>
    /\ LET meta == Stored(c, f)[1].metadata
       IN  /\ SequenceTypeCheck(c.gen, meta.type)
           /\ IF c.op = "generate_sequence"
              THEN /\ meta.seq_type = "range"
                   /\ meta.min = AskedStart(c)
                   /\ meta.max = MaxInRange(c.start, c.stop, c.step).value
                   /\ ImpliedStep(meta) = c.step
              ELSE /\ meta.seq_type = "fibonacci"
                   /\ meta.min = c.first
                   /\ meta.max = Fibonacci(c.first, c.second, c.length - 1)

\* The elements a regeneration for the call c writes.
FreshItems(c) ==
    IF c.op = "generate_sequence"
    THEN ExpectedItems(c.gen.kind, AskedRange(c))
    ELSE ListOf(FibSequence(c.first, c.second, c.length)).items

C16_EquivalenceDecision ==
    [][(/\ pc' = "returned"
        /\ call'.op \in {"generate_sequence", "generate_fibonacci"}
        /\ ReachesDecision(call')) =>
           LET before == IF call'.format = "xml" THEN xml ELSE json
               after == IF call'.format = "xml" THEN xml' ELSE json'
           IN  /\ result'.hit => Equivalent(call', before)
               /\ ~Equivalent(call', before) =>
                      /\ result'.status \in {"ok"} \cup ValidationErrors
                      /\ result'.status = "ok" =>
                             /\ ~result'.hit
                             /\ RawItems(call'.format, after.content[1]) =
                                    FreshItems(call')]_vars

---------------------------------------------------------------------------
(* C17.  A generate_sequence call that reaches the decision against a      *)
(* validly decoded stored range record of one element makes the decision   *)
(* without error: it completes, reusing or regenerating, or fails with a   *)
(* validation error of the regeneration.                                   *)
C17_SingleElementRecord ==
    [][(/\ pc' = "returned"
        /\ call'.op = "generate_sequence"
        /\ ReachesDecision(call')
        /\ LET before == IF call'.format = "xml" THEN xml ELSE json
           IN  /\ Stored(call', before) # <<>>
               /\ Stored(call', before)[1].metadata.seq_type = "range"
               /\ Stored(call', before)[1].metadata.len = 1) =>
           result'.status \in {"ok"} \cup ValidationErrors]_vars

---------------------------------------------------------------------------
(* C18.  When the file a generation call decodes lacks a required metadata *)
(* element, or holds it empty, decode raises nothing and yields None, and  *)
(* the call goes on as from an empty file: it regenerates and overwrites   *)
(* (or fails with a validation error of the regeneration).                 *)
IsDamaged(doc) == doc.metadata.missing \cup doc.metadata.blank # {}

C18_DamagedDecodesAbsent ==
    [][(/\ pc' = "returned"
        /\ call'.op \in {"generate_sequence", "generate_fibonacci"}
        /\ ReachesDecision(call')
        /\ NotEmpty(IF call'.format = "xml" THEN xml ELSE json)
        /\ IsDamaged((IF call'.format = "xml" THEN xml
                      ELSE json).content[1])) =>
           LET before == IF call'.format = "xml" THEN xml ELSE json
               after == IF call'.format = "xml" THEN xml' ELSE json'
           IN  /\ SerializerDecodeStatus(call'.format, before.content[1])
                      = "ok"
               /\ SerializerDecode(call'.format, before.content[1]) = <<>>
               /\ result'.status \in {"ok"} \cup ValidationErrors
               /\ result'.status = "ok" =>
                      /\ ~result'.hit
                      /\ RawItems(call'.format, after.content[1]) =
                             FreshItems(call')]_vars

---------------------------------------------------------------------------
(* C19.  Every generate_sequence(fmt, start, stop, step) in a supported    *)
(* format, stop given or omitted, with a negative step or with start above *)
(* stop fails with InvalidValueError; and with step >= 0 and start <= stop *)
(* it passes the validation of its arguments: from a file without content  *)
(* it completes or fails with InvalidSequenceLength, with no other error.  *)
C19_RangeArguments ==
    [][(/\ pc' = "returned"
        /\ call'.op = "generate_sequence"
        /\ call'.format \in {"xml", "json"}) =>
           LET a == AskedStart(call')
               b == AskedStop(call')
               before == IF call'.format = "xml" THEN xml ELSE json
           IN  /\ (call'.step < 0 \/ a > b) =>
                      result'.status = "InvalidValueError"
               /\ (call'.step >= 0 /\ a <= b /\ ~NotEmpty(before)) =>
                      result'.status \in {"ok", "InvalidSequenceLength"}]_vars

---------------------------------------------------------------------------
(* C20.  Every call of generate_sequence, generate_fibonacci or            *)
(* get_sequence ends: with the file written, the sequence returned or an   *)
(* error raised.  The loop that emits a range never runs forever: when it  *)
(* runs, the step is positive and it emits at most stop - start elements.  *)
C20_Terminates ==
    pc = "returned" =>
        /\ result.status # "NoTermination"
        /\ (call.op = "generate_sequence" /\ Succeeded /\ ~result.hit) =>
               /\ call.step > 0
               /\ Len(RawItems(call.format, Target.content[1])) <=
                      AskedStop(call) - AskedStart(call)

\* The loop ran more than once, with a step above 1.
C20_Witness ==
    /\ pc = "returned" /\ call.op = "generate_sequence" /\ Succeeded
    /\ ~result.hit
    /\ call.step = 2
    /\ Len(RawItems(call.format, Target.content[1])) = 2

---------------------------------------------------------------------------
(* C21.  get_sequence on a generator with bound max_length, reading a      *)
(* stored record that decodes and whose container type the generator       *)
(* accepts, fails with InvalidSequenceLength whenever the stored len is    *)
(* max_length or more, and returns the sequence only when the stored len   *)
(* is strictly below max_length: the bound of __check_seq_length.          *)

\* The format get_sequence reads: xml when data.xml has content.
ReadFormat == IF NotEmpty(xml) THEN "xml" ELSE "json"

\* get_sequence of generator g gets as far as its test of the length.
ReachesLengthTest(g) ==
    /\ NotEmpty(Readable)
    /\ SerializerDecodeStatus(ReadFormat, Readable.content[1]) = "ok"
    /\ SerializerDecode(ReadFormat, Readable.content[1]) # <<>>
    /\ SequenceTypeCheck(g, Readable.content[1].metadata.type)

C21_ReadBoundIsWriteBound ==
    (/\ pc = "returned" /\ call.op = "get_sequence"
     /\ ReachesLengthTest(call.gen)) =>
        IF CheckSeqLength(call.gen, RawLen(ReadFormat, Readable.content[1]))
        THEN Succeeded
        ELSE result.status = "InvalidSequenceLength"

---------------------------------------------------------------------------
(* C22.  After every successful generate_fibonacci(fmt, first, second,     *)
(* length), reusing a stored record or not, the metadata min of the file   *)
(* is the least element of the stored sequence and the metadata max is its *)
(* greatest element.                                                       *)

\* The stored elements have a least one, and it is m.
LeastStored(f, doc, m) ==
    /\ \E i \in 1..Len(RawItems(f, doc)) : RawItems(f, doc)[i].val = m
    /\ \A i \in 1..Len(RawItems(f, doc)) : RawItems(f, doc)[i].val >= m

C22_FibonacciMetadata ==
    (pc = "returned" /\ call.op = "generate_fibonacci" /\ Succeeded) =>
        /\ LeastStored(call.format, Target.content[1],
                       RawMin(call.format, Target.content[1]))
        /\ GreatestStored(call.format, Target.content[1],
                          RawMax(call.format, Target.content[1]))

==========================================================================
